---------------------------- MODULE Spec2Model ----------------------------
(***************************************************************************)
(* Warframe farm planner v2 (src/unnamed/part_000): catalog index built by *)
(* loadData, the scoring helpers, and the two planners.                    *)
(*                                                                         *)
(* Conventions of the model                                                *)
(*  - A JS Map or Set is a sequence in insertion order: a Map is a         *)
(*    sequence of [k, v] entries, a Set a sequence without duplicates.     *)
(*  - A name (resource, node, planet) is a string; trim and lower-casing   *)
(*    are tables over the spellings the data sets use.                     *)
(*  - A mission type is a sequence of words; String.includes is "occurs as *)
(*    a contiguous run of words".                                          *)
(*  - Scores are exact rationals kept as integers: quickMultiplier and     *)
(*    quickMissionMultiplier are in hundredths, an effective score in      *)
(*    ten-thousandths (Unit = 1.0).                                        *)
(***************************************************************************)
EXTENDS Integers, Sequences, FiniteSets, TLC

VARIABLES
    files,              \* the two CSV files on the server, parsed into rows
    loadPc,             \* init(): "fetching", "reading", "loaded" or "failed"
    MASTER_ROWS,        \* part_000:19
    PLANET_DROPS,       \* part_000:20  Map rKey -> set of planet keys
    RESOURCES,          \* part_000:21
    NODE_META,          \* part_000:22  Map nKey -> meta
    EXPLICIT,           \* part_000:27  Map rKey -> Map nKey -> record
    SELECTED_KEYS,      \* part_000:23  Set of resource keys (never iterated)
    resourceFilter,     \* value of the #resourceFilter input
    pc,                 \* "idle", or the position inside planMinimizeStops
    selectedResources,  \* argument of the planner call in progress / last made
    runMode,            \* argument of the planner call in progress / last made
    remaining,          \* planMinimizeStops: local Set
    rDisplay,           \* planMinimizeStops: local Map key -> display name
    candidates,         \* planMinimizeStops: local array of node keys
    route,              \* planMinimizeStops: local array of steps
    ret,                \* the value the last finished call returned
    arg                 \* argument of a helper called on its own

vars == <<files, loadPc, MASTER_ROWS, PLANET_DROPS, RESOURCES, NODE_META,
          EXPLICIT, SELECTED_KEYS, resourceFilter, pc, selectedResources, runMode, remaining, rDisplay,
          candidates, route, ret, arg>>

uiVars == <<SELECTED_KEYS, resourceFilter>>
catalogVars == <<MASTER_ROWS, PLANET_DROPS, RESOURCES, NODE_META, EXPLICIT>>
callVars == <<pc, selectedResources, runMode, remaining, rDisplay, candidates,
              route, ret>>

-----------------------------------------------------------------------------
(* Bounds *)

\* longest ResourcesMaster.csv (data rows) of the general data sets
MaxRows == 2

\* longest ResourcesMaster.csv of the chain data sets (resource i on node i)
ChainLen == 7

\* longest list handed to pickTopOptions on its own, and largest maxOptions
MaxList == 4

-----------------------------------------------------------------------------
(* Strings *)

\* String.prototype.trim, on the spellings used
trim(s) ==
    CASE s = " N2 "     -> "N2"
      [] s = " Rubedo"  -> "Rubedo"
      [] OTHER          -> s

\* String.prototype.toLowerCase, on the spellings used
toLowerCase(s) ==
    CASE s = "Plastids" -> "plastids"
      [] s = "Rubedo"   -> "rubedo"
      [] s = "Ferrite"  -> "ferrite"
      [] s = "Rub"      -> "rub"
      [] s = "N1"       -> "n1"
      [] s = "N2"       -> "n2"
      [] s = "N3"       -> "n3"
      [] s = "Earth"    -> "earth"
      [] s = "Mars"     -> "mars"
      [] s = "MARS"     -> "mars"
      [] s = "TRUE"     -> "true"
      [] s = "True"     -> "true"
      [] s = "Capture"      -> "capture"
      [] s = "CAPTURE"      -> "capture"
      [] s = "Exterminate"  -> "exterminate"
      [] s = "Rescue"       -> "rescue"
      [] s = "Sabotage"     -> "sabotage"
      [] s = "Spy"          -> "spy"
      [] s = "Disruption"   -> "disruption"
      [] s = "Activity"     -> "activity"
      [] s = "Survival"     -> "survival"
      [] s = "Defense"      -> "defense"
      [] s = "Interception" -> "interception"
      [] s = "Excavation"   -> "excavation"
      [] s = "Mobile"       -> "mobile"
      [] s = "Other"        -> "other"
      [] s = "Assassination" -> "assassination"
      [] OTHER          -> s

norm(s) == toLowerCase(trim(s))

\* norm of a mission type: each word lower-cased
normWords(ws) == [i \in DOMAIN ws |-> toLowerCase(ws[i])]

\* String.prototype.includes on word sequences
includes(hay, needle) ==
    \E i \in 0..(Len(hay) - Len(needle)) :
        SubSeq(hay, i + 1, i + Len(needle)) = needle

\* position of a display name in the collation localeCompare sorts by; the
\* chain names r1..r9 collate in index order after the general names
localeRank(s) ==
    CASE s = "plastids" -> 1
      [] s = "Plastids" -> 2
      [] s = "Rubedo"   -> 3
      [] OTHER -> 3 + (CHOOSE i \in 1..(ChainLen + 2) : s = "r" \o ToString(i))

-----------------------------------------------------------------------------
(* JS Map and Set, in insertion order *)

MapHas(m, k) == \E i \in DOMAIN m : m[i].k = k

MapGet(m, k) == m[CHOOSE i \in DOMAIN m : m[i].k = k].v

\* mutant: a key that is present keeps its value
MapSetKeepFirst(m, k, v) ==
    IF MapHas(m, k) THEN m ELSE Append(m, [k |-> k, v |-> v])

\* Map.prototype.set: an existing key keeps its place
MapSet(m, k, v) ==
    IF MapHas(m, k)
    THEN [i \in DOMAIN m |-> IF m[i].k = k THEN [k |-> k, v |-> v] ELSE m[i]]
    ELSE Append(m, [k |-> k, v |-> v])

MapKeys(m) == [i \in DOMAIN m |-> m[i].k]

SeqHas(s, x) == \E i \in DOMAIN s : s[i] = x

\* Set.prototype.add
SetAdd(s, x) == IF SeqHas(s, x) THEN s ELSE Append(s, x)

RECURSIVE SetAddAll(_, _)
SetAddAll(s, xs) ==
    IF xs = <<>> THEN s ELSE SetAddAll(SetAdd(s, Head(xs)), Tail(xs))

\* Set.prototype.delete
RECURSIVE SetDelete(_, _)
SetDelete(s, x) ==
    IF s = <<>> THEN <<>>
    ELSE IF Head(s) = x THEN Tail(s)
    ELSE <<Head(s)>> \o SetDelete(Tail(s), x)

Range(s) == {s[i] : i \in DOMAIN s}

-----------------------------------------------------------------------------
(* The data sets: rows as parseCsv hands them to loadData *)

Row(resource, node, planet, missionType, isEndless, speedScore, dropScore) ==
    [resource |-> resource, node |-> node, planet |-> planet,
     missionType |-> missionType, isEndless |-> isEndless,
     speedScore |-> speedScore, dropScore |-> dropScore]

\* the rows a general ResourcesMaster.csv is made of
RowPool ==
    { Row("Plastids", "N1",   "Earth", <<"Survival">>,          "true",  3, 5),
      Row("Plastids", " N2 ", "Earth", <<"Capture">>,           "false", 5, 5),
      Row("Rubedo",   "N2",   "Earth", <<"Capture">>,           "false", 5, 4),
      Row("Rubedo",   "N3",   "Mars",  <<"Mobile", "Defense">>, "TRUE",  0, 5),
      Row("plastids", "n1",   "Mars",  <<>>,                    "false", 7, -1),
      Row("Rubedo",   "N1",   "Earth", <<"Survival">>,          "true",  3, 0),
      Row("Plastids", "N3",   "Mars",  <<"Survival">>,          "True",  2, 5),
      Row("",         "N2",   "Earth", <<"Capture">>,           "false", 5, 9) }

PlanetRow(planet, resources) == [planet |-> planet, resources |-> resources]

\* the ResourcesPlanet.csv files; resources is the cell split at ","
PlanetFiles ==
    { <<>>,
      << PlanetRow("Earth", <<"Plastids", " Rubedo", "">>),
         PlanetRow("Mars", <<"Ferrite">>) >>,
      << PlanetRow("", <<"Rubedo">>),
         PlanetRow("MARS", <<"rubedo", "Ferrite">>),
         PlanetRow("Earth", <<"Ferrite">>) >> }

SeqsUpTo(S, n) == UNION { [1..k -> S] : k \in 0..n }

GeneralFiles ==
    { [master |-> m, planet |-> p] : m \in SeqsUpTo(RowPool, MaxRows),
                                     p \in PlanetFiles }

\* chain data sets: resource r<i> only on node c<i>, every node alike but for
\* the endless flag, so that a route needs one stop per resource
ChainRow(i) ==
    Row("r" \o ToString(i), "c" \o ToString(i), "earth", <<"capture">>,
        IF i % 2 = 1 THEN "true" ELSE "false", 5, 5)

ChainFiles ==
    { [master |-> [i \in 1..k |-> ChainRow(i)], planet |-> p] :
        k \in 0..ChainLen,
        p \in { <<>>, << PlanetRow("earth", <<"r2">>) >> } }

-----------------------------------------------------------------------------
(* loadData, part_000:158-252 *)

\* one iteration of "for (const row of master)", part_000:180-223
IndexRow(acc, row) ==
    LET resource  == trim(row.resource)
        node      == trim(row.node)
        planetName == trim(row.planet)
        isEndless == toLowerCase(trim(row.isEndless)) = "true"
        rKey      == norm(resource)
        nKey      == norm(node)
        rec       == [dropScore |-> row.dropScore,
                      speedScore |-> row.speedScore,
                      isEndless |-> isEndless]
        meta      == [node |-> node, planet |-> planetName,
                      planetKey |-> norm(planetName),
                      missionType |-> IF row.missionType = <<>>
                                      THEN <<"Other">> ELSE row.missionType,
                      isEndless |-> isEndless,
                      speedScore |-> row.speedScore]
        inner     == IF MapHas(acc.explicit, rKey)
                     THEN MapGet(acc.explicit, rKey) ELSE <<>>
    IN  IF resource = "" \/ node = "" THEN acc
        ELSE [rows |-> Append(acc.rows,
                         [resource |-> resource, node |-> node,
                          planet |-> planetName,
                          missionType |-> row.missionType,
                          isEndless |-> isEndless,
                          speedScore |-> row.speedScore,
                          dropScore |-> row.dropScore,
                          rKey |-> rKey, nKey |-> nKey,
                          pKey |-> norm(planetName)]),
              meta |-> IF MapHas(acc.meta, nKey) THEN acc.meta
                       ELSE MapSet(acc.meta, nKey, meta),
              explicit |-> MapSet(acc.explicit, rKey,
                                  MapSet(inner, nKey, rec))]

RECURSIVE IndexRows(_, _)
IndexRows(acc, master) ==
    IF master = <<>> THEN acc
    ELSE IndexRows(IndexRow(acc, Head(master)), Tail(master))

\* part_000:226-229: first display name of every resource key
RECURSIVE uniqueResources(_, _)
uniqueResources(m, rows) ==
    IF rows = <<>> THEN m
    ELSE uniqueResources(
            IF MapHas(m, Head(rows).rKey) THEN m
            ELSE MapSet(m, Head(rows).rKey, Head(rows).resource),
            Tail(rows))

\* Array.prototype.sort((a, b) => a.localeCompare(b))
RECURSIVE sortLocale(_)
sortLocale(s) ==
    IF Len(s) <= 1 THEN s
    ELSE LET front == sortLocale(SubSeq(s, 1, Len(s) - 1))
             x     == s[Len(s)]
             n     == Cardinality({i \in DOMAIN front :
                                     localeRank(front[i]) <= localeRank(x)})
         IN  SubSeq(front, 1, n) \o <<x>> \o SubSeq(front, n + 1, Len(front))

\* the items of one resources cell: trimmed, empty ones dropped
RECURSIVE cellList(_)
cellList(items) ==
    IF items = <<>> THEN <<>>
    ELSE (IF trim(Head(items)) = "" THEN <<>> ELSE <<trim(Head(items))>>)
         \o cellList(Tail(items))

RECURSIVE addPlanet(_, _, _)
addPlanet(drops, pKey, list) ==
    IF list = <<>> THEN drops
    ELSE LET rKey == norm(Head(list))
             old  == IF MapHas(drops, rKey) THEN MapGet(drops, rKey) ELSE {}
         IN  addPlanet(MapSet(drops, rKey, old \cup {pKey}), pKey, Tail(list))

\* "for (const row of planet)", part_000:233-251
RECURSIVE IndexPlanets(_, _)
IndexPlanets(drops, planet) ==
    IF planet = <<>> THEN drops
    ELSE LET planetName == trim(Head(planet).planet)
         IN  IndexPlanets(
                IF planetName = "" THEN drops
                ELSE addPlanet(drops, norm(planetName),
                               cellList(Head(planet).resources)),
                Tail(planet))

EmptyIndex == [rows |-> <<>>, meta |-> <<>>, explicit |-> <<>>]

-----------------------------------------------------------------------------
(* Scoring helpers, part_000:341-430 *)

FALLBACK_SCORE == 2

\* 1.0 in ten-thousandths
Unit == 100 * 100

\* mutant: the speed score is not clamped
quickMultiplierNoClamp(speedScore) == 60 + 8 * speedScore

\* part_000:341-345, in hundredths: 0.6 + 0.4 * (s / 5) = (60 + 8 * s) / 100
quickMultiplier(speedScore) ==
    LET s == IF speedScore < 0 THEN 0
             ELSE IF speedScore > 5 THEN 5 ELSE speedScore
    IN  60 + 8 * s

\* part_000:350-354; <<>> stands for null, <<rec>> for the record
getExplicitScore(rKey, nKey) ==
    IF ~MapHas(EXPLICIT, rKey) THEN <<>>
    ELSE IF ~MapHas(MapGet(EXPLICIT, rKey), nKey) THEN <<>>
    ELSE <<MapGet(MapGet(EXPLICIT, rKey), nKey)>>

\* part_000:356-359
planetHasResourceFallback(rKey, planetKey) ==
    MapHas(PLANET_DROPS, rKey) /\ planetKey \in MapGet(PLANET_DROPS, rKey)

\* part_000:386-414, in hundredths
quickMissionMultiplier(missionType, isEndless) ==
    LET mt == normWords(missionType)
    IN  IF includes(mt, <<"capture">>) THEN 140
        ELSE IF includes(mt, <<"exterminate">>) THEN 130
        ELSE IF includes(mt, <<"rescue">>) THEN 122
        ELSE IF includes(mt, <<"sabotage">>) THEN 118
        ELSE IF includes(mt, <<"spy">>) THEN 110
        ELSE IF includes(mt, <<"disruption">>) THEN 108
        ELSE IF includes(mt, <<"activity">>) THEN 120
        ELSE IF includes(mt, <<"survival">>) THEN 90
        ELSE IF includes(mt, <<"defense">>) THEN 86
        ELSE IF includes(mt, <<"interception">>) THEN 85
        ELSE IF includes(mt, <<"excavation">>) THEN 92
        ELSE IF includes(mt, <<"mobile", "defense">>) THEN 82
        ELSE IF isEndless THEN (100 * 92) \div 100
        ELSE 100

\* part_000:361-373, in ten-thousandths
computeEffScore(scoreObj, mode, meta) ==
    IF mode = "quick"
    THEN scoreObj.dropScore * quickMultiplier(scoreObj.speedScore)
            * quickMissionMultiplier(meta.missionType, meta.isEndless)
    ELSE scoreObj.dropScore * Unit

\* mutant: the run mode is ignored
nodeEligibleAlways(nMeta, mode) == TRUE

\* part_000:375-378
nodeEligibleByRunMode(nMeta, mode) ==
    IF mode = "endless" THEN nMeta.isEndless ELSE TRUE

\* mutant: one item too many (> for >= in the break test)
RECURSIVE pickLoopOffByOne(_, _, _, _)
pickLoopOffByOne(list, best, maxOptions, out) ==
    IF list = <<>> \/ Len(out) > maxOptions THEN out
    ELSE pickLoopOffByOne(Tail(list), best, maxOptions,
                          IF 10 * Head(list).score >= 9 * best
                          THEN Append(out, Head(list)) ELSE out)

\* the loop of pickTopOptions, part_000:425-428
RECURSIVE pickLoop(_, _, _, _)
pickLoop(list, best, maxOptions, out) ==
    IF list = <<>> \/ Len(out) >= maxOptions THEN out
    ELSE pickLoop(Tail(list), best, maxOptions,
                  IF 10 * Head(list).score >= 9 * best
                  THEN Append(out, Head(list)) ELSE out)

\* part_000:420-430; scoredList is bound as a value, so it is computed once
pickTopOptions(scoredList, maxOptions) ==
    CHOOSE out \in
        { IF list = <<>> THEN <<>>
          ELSE pickLoop(list, list[1].score, maxOptions, <<>>) :
            list \in {scoredList} } : TRUE

\* mutant: a sort that is not stable (equal scores come out reversed)
placeByScoreUnstable(s, i) ==
    1 + Cardinality({j \in DOMAIN s :
                        \/ s[j].score > s[i].score
                        \/ (s[j].score = s[i].score /\ j > i)})

\* the place of s[i] once s is sorted by descending score, ties in the order
\* they had (Array.prototype.sort is stable)
placeByScore(s, i) ==
    1 + Cardinality({j \in DOMAIN s :
                        \/ s[j].score > s[i].score
                        \/ (s[j].score = s[i].score /\ j < i)})

\* Array.prototype.sort((a, b) => b.score - a.score); s is bound as a value,
\* so it is computed once
sortByScore(s) ==
    CHOOSE sorted \in
        { [k \in DOMAIN a |-> a[CHOOSE i \in DOMAIN a : placeByScore(a, i) = k]] :
            a \in {s} } : TRUE

-----------------------------------------------------------------------------
(* planMaximizeEfficiency, part_000:435-474 *)

\* part_000:453-461: the eligible nodes of one resource, scored
RECURSIVE scoreExplicit(_, _)
scoreExplicit(entries, mode) ==
    IF entries = <<>> THEN <<>>
    ELSE LET nKey == Head(entries).k
             rest == scoreExplicit(Tail(entries), mode)
         IN  IF ~MapHas(NODE_META, nKey) THEN rest
             ELSE IF ~nodeEligibleByRunMode(MapGet(NODE_META, nKey), mode)
             THEN rest
             ELSE << [nodeKey |-> nKey,
                      score |-> computeEffScore(Head(entries).v, mode,
                                                MapGet(NODE_META, nKey))] >>
                  \o rest

\* part_000:464-468
withMeta(options) ==
    [i \in DOMAIN options |->
        [nodeKey |-> options[i].nodeKey,
         score |-> options[i].score,
         meta |-> MapGet(NODE_META, options[i].nodeKey)]]

\* mutant: nodes on a planet of the resource's fallback set are scored too
efficiencyOptionsWithFallback(rKey, mode) ==
    LET fb == SelectSeq(NODE_META,
                        LAMBDA e : /\ ~MapHas(MapGet(EXPLICIT, rKey), e.k)
                                   /\ planetHasResourceFallback(rKey, e.v.planetKey))
    IN  withMeta(pickTopOptions(
            sortByScore(scoreExplicit(MapGet(EXPLICIT, rKey), mode)
                        \o [i \in DOMAIN fb |->
                               [nodeKey |-> fb[i].k,
                                score |-> FALLBACK_SCORE * Unit]]), 3))

\* the options of one resource that has explicit data, part_000:452-468
efficiencyOptions(rKey, mode) ==
    withMeta(pickTopOptions(
        sortByScore(scoreExplicit(MapGet(EXPLICIT, rKey), mode)), 3))

\* mutant: every empty options list is tagged with a note
efficiencyEntryNoteWhenEmpty(rName, mode) ==
    LET rKey == norm(rName)
    IN  IF ~MapHas(EXPLICIT, rKey) \/ MapGet(EXPLICIT, rKey) = <<>>
        THEN [resource |-> rName, options |-> <<>>,
              note |-> "No explicit data for this resource."]
        ELSE IF efficiencyOptions(rKey, mode) = <<>>
        THEN [resource |-> rName, options |-> <<>>,
              note |-> "No eligible nodes found for this run style."]
        ELSE [resource |-> rName, options |-> efficiencyOptions(rKey, mode)]

\* one iteration of the loop over selectedResources, part_000:439-471
efficiencyEntry(rName, mode) ==
    LET rKey == norm(rName)
    IN  IF ~MapHas(EXPLICIT, rKey) \/ MapGet(EXPLICIT, rKey) = <<>>
        THEN [resource |-> rName, options |-> <<>>,
              note |-> "No explicit data for this resource."]
        ELSE [resource |-> rName, options |-> efficiencyOptions(rKey, mode)]

planMaximizeEfficiency(selected, mode) ==
    [i \in DOMAIN selected |-> efficiencyEntry(selected[i], mode)]

-----------------------------------------------------------------------------
(* planMinimizeStops, part_000:476-573 *)

maxStops == 6

\* part_000:478
RECURSIVE displayMap(_, _)
displayMap(m, selected) ==
    IF selected = <<>> THEN m
    ELSE displayMap(MapSet(m, norm(Head(selected)), Head(selected)),
                    Tail(selected))

\* rDisplay.get(rKey) || rKey
displayOf(rKey) == IF MapHas(rDisplay, rKey) THEN MapGet(rDisplay, rKey) ELSE rKey

\* mutant: every indexed node is a candidate
candidateNodesAllNodes(acc, rem) == MapKeys(NODE_META)

\* part_000:484-489
RECURSIVE candidateNodes(_, _)
candidateNodes(acc, rem) ==
    IF rem = <<>> THEN acc
    ELSE candidateNodes(
            IF MapHas(EXPLICIT, Head(rem))
            THEN SetAddAll(acc, MapKeys(MapGet(EXPLICIT, Head(rem))))
            ELSE acc,
            Tail(rem))

\* mutant: the filter uses the run mode the call before left behind
RECURSIVE filterEligibleLastMode(_, _)
filterEligibleLastMode(nodes, mode) ==
    IF nodes = <<>> THEN <<>>
    ELSE (IF MapHas(NODE_META, Head(nodes))
             /\ nodeEligibleByRunMode(MapGet(NODE_META, Head(nodes)), runMode)
          THEN <<Head(nodes)>> ELSE <<>>)
         \o filterEligibleLastMode(Tail(nodes), mode)

\* part_000:491-495
RECURSIVE filterEligible(_, _)
filterEligible(nodes, mode) ==
    IF nodes = <<>> THEN <<>>
    ELSE (IF MapHas(NODE_META, Head(nodes))
             /\ nodeEligibleByRunMode(MapGet(NODE_META, Head(nodes)), mode)
          THEN <<Head(nodes)>> ELSE <<>>)
         \o filterEligible(Tail(nodes), mode)

\* mutant: the quick-mode multipliers are not applied to the fallback score
fallbackScoreUnscaled(meta, mode) == FALLBACK_SCORE * Unit

\* part_000:524-528, in ten-thousandths
fallbackScore(meta, mode) ==
    IF mode = "quick"
    THEN FALLBACK_SCORE * quickMultiplier(meta.speedScore)
            * quickMissionMultiplier(meta.missionType, meta.isEndless)
    ELSE FALLBACK_SCORE * Unit

\* mutant: an explicit record that scores nothing falls through to the planet
\* fallback (the `continue` of part_000:520 is missing)
coverOneFallsThrough(rKey, nKey, meta, mode) ==
    LET explicit == getExplicitScore(rKey, nKey)
        eff == computeEffScore(explicit[1], mode, meta)
    IN  IF explicit # <<>> /\ eff > 0
        THEN << [resource |-> displayOf(rKey), via |-> "explicit",
                 score |-> eff] >>
        ELSE IF planetHasResourceFallback(rKey, meta.planetKey)
        THEN << [resource |-> displayOf(rKey), via |-> "planet",
                 score |-> fallbackScore(meta, mode)] >>
        ELSE <<>>

\* the body of "for (const rKey of remaining)", part_000:507-536: what node
\* nKey adds to covered for rKey (nothing, or one entry)
coverOne(rKey, nKey, meta, mode) ==
    LET explicit == getExplicitScore(rKey, nKey)
    IN  IF explicit # <<>>
        THEN LET eff == computeEffScore(explicit[1], mode, meta)
             IN  IF eff > 0
                 THEN << [resource |-> displayOf(rKey), via |-> "explicit",
                          score |-> eff] >>
                 ELSE <<>>
        ELSE IF planetHasResourceFallback(rKey, meta.planetKey)
        THEN << [resource |-> displayOf(rKey), via |-> "planet",
                 score |-> fallbackScore(meta, mode)] >>
        ELSE <<>>

RECURSIVE coveredBy(_, _, _, _)
coveredBy(nKey, meta, rem, mode) ==
    IF rem = <<>> THEN <<>>
    ELSE coverOne(Head(rem), nKey, meta, mode)
         \o coveredBy(nKey, meta, Tail(rem), mode)

RECURSIVE sumScores(_)
sumScores(covered) ==
    IF covered = <<>> THEN 0 ELSE Head(covered).score + sumScores(Tail(covered))

\* part_000:498-546: the scored array of one iteration, before it is sorted
RECURSIVE scoreCandidates(_, _, _)
scoreCandidates(nodes, rem, mode) ==
    IF nodes = <<>> THEN <<>>
    ELSE LET nKey == Head(nodes)
             rest == scoreCandidates(Tail(nodes), rem, mode)
         IN  IF ~MapHas(NODE_META, nKey) THEN rest
             ELSE LET meta    == MapGet(NODE_META, nKey)
                      covered == coveredBy(nKey, meta, rem, mode)
                  IN  IF covered = <<>> THEN rest
                      ELSE << [nodeKey |-> nKey,
                               score |-> sumScores(covered),
                               meta |-> meta,
                               covered |-> covered] >> \o rest

\* part_000:548-550
topOptions(nodes, rem, mode) ==
    pickTopOptions(sortByScore(scoreCandidates(nodes, rem, mode)), 3)

\* mutant: the display name is deleted from remaining, not its key
RECURSIVE removeCoveredByDisplay(_, _)
removeCoveredByDisplay(rem, covered) ==
    IF covered = <<>> THEN rem
    ELSE removeCoveredByDisplay(SetDelete(rem, Head(covered).resource),
                                Tail(covered))

\* part_000:557-559: the resources the options in picked take out of remaining
RECURSIVE removeCovered(_, _)
removeCovered(rem, covered) ==
    IF covered = <<>> THEN rem
    ELSE removeCovered(SetDelete(rem, norm(Head(covered).resource)),
                       Tail(covered))

\* mutant: what any displayed option covers leaves remaining
RECURSIVE afterStepAnyOption(_, _)
afterStepAnyOption(rem, top) ==
    IF top = <<>> THEN rem
    ELSE afterStepAnyOption(removeCovered(rem, Head(top).covered), Tail(top))

\* part_000:554-559: only the best option decides what is covered
afterStep(rem, top) == removeCovered(rem, top[1].covered)

\* mutant: off by one in the stop bound
loopConditionOffByOne == remaining # <<>> /\ Len(route) <= maxStops

\* part_000:497
loopCondition == remaining # <<>> /\ Len(route) < maxStops

\* part_000:571
missingOf(rem) == [i \in DOMAIN rem |-> displayOf(rem[i])]

-----------------------------------------------------------------------------
(* Inputs of the planner calls *)

RunModes == {"quick", "endless"}

RequestNames == <<"Ferrite", "Plastids", "Rubedo">>

\* the subsequence of s at the positions in idx
RECURSIVE pickAt(_, _, _)
pickAt(s, idx, i) ==
    IF i > Len(s) THEN <<>>
    ELSE (IF i \in idx THEN <<s[i]>> ELSE <<>>) \o pickAt(s, idx, i + 1)

\* what a caller asks for: any non-empty choice of RequestNames, or every
\* resource of the list the page shows ("Select all")
Requests ==
    { pickAt(RequestNames, idx, 1) :
        idx \in (SUBSET DOMAIN RequestNames) \ {{}} }
    \cup (IF RESOURCES = <<>> THEN {} ELSE {RESOURCES})

None == [fn |-> "none"]

-----------------------------------------------------------------------------
(* Actions *)

InitWith(F) ==
    /\ files \in F
    /\ loadPc = "fetching"
    /\ MASTER_ROWS = <<>>
    /\ PLANET_DROPS = <<>>
    /\ RESOURCES = <<>>
    /\ NODE_META = <<>>
    /\ EXPLICIT = <<>>
    /\ SELECTED_KEYS = {}
    /\ resourceFilter = ""
    /\ pc = "idle"
    /\ selectedResources = <<>>
    /\ runMode = "quick"
    /\ remaining = <<>>
    /\ rDisplay = <<>>
    /\ candidates = <<>>
    /\ route = <<>>
    /\ ret = None
    /\ arg = None

Init == InitWith(GeneralFiles \cup ChainFiles)

InitChain == InitWith(ChainFiles)

\* both fetches answered ok, part_000:160-166; the bodies are awaited next
LoadResponses ==
    /\ loadPc = "fetching"
    /\ pc = "idle"
    /\ loadPc' = "reading"
    /\ UNCHANGED <<files, uiVars, catalogVars, callVars, arg>>

\* mutant: the planet file is awaited after the master index is built, so the
\* index is assigned in two turns of the event loop
LoadDataAcrossAwait ==
    /\ pc = "idle"
    /\ \/ /\ loadPc = "reading"
          /\ LET idx == IndexRows(EmptyIndex, files.master)
             IN  /\ MASTER_ROWS' = idx.rows
                 /\ NODE_META' = idx.meta
                 /\ EXPLICIT' = idx.explicit
                 /\ RESOURCES' = sortLocale(
                        [i \in DOMAIN uniqueResources(<<>>, idx.rows) |->
                            uniqueResources(<<>>, idx.rows)[i].v])
          /\ loadPc' = "indexing"
          /\ UNCHANGED PLANET_DROPS
       \/ /\ loadPc = "indexing"
          /\ PLANET_DROPS' = IndexPlanets(<<>>, files.planet)
          /\ loadPc' = "loaded"
          /\ UNCHANGED <<MASTER_ROWS, NODE_META, EXPLICIT, RESOURCES>>
    /\ UNCHANGED <<files, uiVars, callVars, arg>>

\* loadData once both bodies are read, part_000:171-251: no await in between
LoadData ==
    /\ loadPc = "reading"
    /\ pc = "idle"
    /\ LET idx == IndexRows(EmptyIndex, files.master)
       IN  /\ MASTER_ROWS' = idx.rows
           /\ NODE_META' = idx.meta
           /\ EXPLICIT' = idx.explicit
           /\ RESOURCES' = sortLocale(
                  [i \in DOMAIN uniqueResources(<<>>, idx.rows) |->
                      uniqueResources(<<>>, idx.rows)[i].v])
    /\ PLANET_DROPS' = IndexPlanets(<<>>, files.planet)
    /\ loadPc' = "loaded"
    /\ UNCHANGED <<files, uiVars, callVars, arg>>

\* a fetch that is not ok: loadData throws, part_000:165-166
LoadFail ==
    /\ loadPc = "fetching"
    /\ pc = "idle"
    /\ loadPc' = "failed"
    /\ UNCHANGED <<files, uiVars, catalogVars, callVars, arg>>

\* a call of planMaximizeEfficiency(sel, mode), part_000:435-474
EnterPlanMaximizeEfficiency(sel, mode) ==
    /\ selectedResources' = sel
    /\ runMode' = mode
    /\ ret' = [fn |-> "planMaximizeEfficiency",
               value |-> planMaximizeEfficiency(sel, mode)]
    /\ UNCHANGED <<files, uiVars, loadPc, catalogVars, pc, remaining, rDisplay,
                   candidates, route>>

\* planners are called once init() has settled, part_000:707-715
CallPlanMaximizeEfficiency ==
    /\ pc = "idle"
    /\ loadPc \in {"loaded", "failed"}
    /\ \E sel \in Requests, mode \in RunModes :
          EnterPlanMaximizeEfficiency(sel, mode)
    /\ UNCHANGED arg

\* a call of planMinimizeStops(sel, mode) up to its loop, part_000:477-495
EnterPlanMinimizeStops(sel, mode) ==
    /\ selectedResources' = sel
    /\ runMode' = mode
    /\ remaining' = SetAddAll(<<>>, [i \in DOMAIN sel |-> norm(sel[i])])
    /\ rDisplay' = displayMap(<<>>, sel)
    /\ candidates' = filterEligible(candidateNodes(<<>>, remaining'), mode)
    /\ route' = <<>>
    /\ ret' = None
    /\ pc' = "loop"
    /\ UNCHANGED <<files, uiVars, loadPc, catalogVars>>

CallPlanMinimizeStops ==
    /\ pc = "idle"
    /\ loadPc \in {"loaded", "failed"}
    /\ \E sel \in Requests, mode \in RunModes :
          EnterPlanMinimizeStops(sel, mode)
    /\ UNCHANGED arg

\* mutant: remaining is the selection itself, not a copy of it
StopsLoopIterOnSelection ==
    /\ pc = "loop"
    /\ loopCondition
    /\ \E top \in {topOptions(candidates, remaining, runMode)} :
           IF top = <<>>
           THEN /\ pc' = "break"
                /\ UNCHANGED <<remaining, route, SELECTED_KEYS>>
           ELSE /\ remaining' = afterStep(remaining, top)
                /\ SELECTED_KEYS' =
                      SELECTED_KEYS \ (Range(remaining) \ Range(remaining'))
                /\ route' = Append(route, [options |-> top])
                /\ pc' = "loop"
    /\ UNCHANGED <<files, resourceFilter, loadPc, catalogVars,
                   selectedResources, runMode, rDisplay, candidates, ret, arg>>

\* one iteration of the while loop, part_000:497-569
StopsLoopIter ==
    /\ pc = "loop"
    /\ loopCondition
    /\ \E top \in {topOptions(candidates, remaining, runMode)} :
           IF top = <<>>
           THEN /\ pc' = "break"
                /\ UNCHANGED <<remaining, route>>
           ELSE /\ remaining' = afterStep(remaining, top)
                /\ route' = Append(route, [options |-> top])
                /\ pc' = "loop"
    /\ UNCHANGED <<files, uiVars, loadPc, catalogVars, selectedResources, runMode,
                   rDisplay, candidates, ret, arg>>

\* part_000:571-572
StopsReturn ==
    /\ pc = "break" \/ (pc = "loop" /\ ~loopCondition)
    /\ ret' = [fn |-> "planMinimizeStops",
               value |-> [route |-> route, missing |-> missingOf(remaining)]]
    /\ pc' = "idle"
    /\ remaining' = <<>>
    /\ rDisplay' = <<>>
    /\ candidates' = <<>>
    /\ route' = <<>>
    /\ UNCHANGED <<files, uiVars, loadPc, catalogVars, selectedResources, runMode, arg>>

Next ==
    \/ LoadResponses
    \/ LoadData
    \/ LoadFail
    \/ CallPlanMaximizeEfficiency
    \/ CallPlanMinimizeStops
    \/ StopsLoopIter
    \/ StopsReturn

Spec == Init /\ [][Next]_vars

\* the planner runs to completion: nothing else is scheduled inside a call
SpecChain ==
    InitChain /\ [][Next]_vars /\ WF_vars(StopsLoopIter) /\ WF_vars(StopsReturn)

-----------------------------------------------------------------------------
(* The page: selection, filter and the Plan button, part_000:254-340, 684-728 *)

\* what the user types into the filter box
FilterValues == {"", "Rub"}

\* String.prototype.includes of a lower-cased resource name, on the spellings
\* used
stringIncludes(lower, filter) ==
    CASE filter = ""    -> TRUE
      [] filter = "rub" -> lower = "rubedo"
      [] OTHER          -> FALSE

\* part_000:268, 272 (and 317, 322): the resource passes the filter
shown(r) ==
    LET filter == toLowerCase(trim(resourceFilter))
    IN  filter = "" \/ stringIncludes(toLowerCase(r), filter)

\* part_000:257-264
getSelectedResources == SelectSeq(RESOURCES, LAMBDA r : norm(r) \in SELECTED_KEYS)

\* "input" on #resourceFilter: populateResources redraws the list
FilterInput ==
    /\ pc = "idle"
    /\ \E v \in FilterValues : resourceFilter' = v
    /\ UNCHANGED <<files, loadPc, catalogVars, SELECTED_KEYS, callVars, arg>>

\* "change" on the checkbox of a listed resource, part_000:284-287
CheckboxChange ==
    /\ pc = "idle"
    /\ \E i \in DOMAIN RESOURCES :
          /\ shown(RESOURCES[i])
          /\ SELECTED_KEYS' =
                IF norm(RESOURCES[i]) \in SELECTED_KEYS
                THEN SELECTED_KEYS \ {norm(RESOURCES[i])}
                ELSE SELECTED_KEYS \cup {norm(RESOURCES[i])}
    /\ UNCHANGED <<files, loadPc, catalogVars, resourceFilter, callVars, arg>>

\* "Select all" (value) and "Clear" (not value), part_000:314-328
selectAllResources ==
    /\ pc = "idle"
    /\ \E value \in BOOLEAN :
          LET keys == {norm(RESOURCES[i]) :
                          i \in {j \in DOMAIN RESOURCES : shown(RESOURCES[j])}}
          IN  SELECTED_KEYS' = IF value THEN SELECTED_KEYS \cup keys
                               ELSE SELECTED_KEYS \ keys
    /\ UNCHANGED <<files, loadPc, catalogVars, resourceFilter, callVars, arg>>

\* planRoute with nothing selected, part_000:685-689
PlanRouteNothingSelected ==
    /\ pc = "idle"
    /\ getSelectedResources = <<>>
    /\ ret' = [fn |-> "planRoute", value |-> "Select at least one resource."]
    /\ UNCHANGED <<files, uiVars, loadPc, catalogVars, pc, selectedResources,
                   runMode, remaining, rDisplay, candidates, route, arg>>

\* planRoute with goal "efficiency", part_000:691-698
PlanRouteEfficiency ==
    /\ pc = "idle"
    /\ getSelectedResources # <<>>
    /\ \E mode \in RunModes :
          EnterPlanMaximizeEfficiency(getSelectedResources, mode)
    /\ UNCHANGED arg

\* planRoute with goal "stops", part_000:700-701
PlanRouteStops ==
    /\ pc = "idle"
    /\ getSelectedResources # <<>>
    /\ \E mode \in RunModes :
          EnterPlanMinimizeStops(getSelectedResources, mode)
    /\ UNCHANGED arg

InitPage == InitWith(GeneralFiles)

\* the events of the page, in any order with the steps of init()
NextPage ==
    \/ LoadResponses
    \/ LoadData
    \/ LoadFail
    \/ FilterInput
    \/ CheckboxChange
    \/ selectAllResources
    \/ PlanRouteNothingSelected
    \/ PlanRouteEfficiency
    \/ PlanRouteStops
    \/ StopsLoopIter
    \/ StopsReturn

SpecPage == InitPage /\ [][NextPage]_vars

-----------------------------------------------------------------------------
(* A planner called a second time with the arguments of the call before *)

\* planMaximizeEfficiency again; arg keeps what the first call returned
RepeatPlanMaximizeEfficiency ==
    /\ pc = "idle"
    /\ arg = None
    /\ ret.fn = "planMaximizeEfficiency"
    /\ arg' = [fn |-> "repeat", of |-> ret.fn, value |-> ret.value]
    /\ EnterPlanMaximizeEfficiency(selectedResources, runMode)

\* planMinimizeStops again; arg keeps what the first call returned
RepeatPlanMinimizeStops ==
    /\ pc = "idle"
    /\ arg = None
    /\ ret.fn = "planMinimizeStops"
    /\ arg' = [fn |-> "repeat", of |-> ret.fn, value |-> ret.value]
    /\ EnterPlanMinimizeStops(selectedResources, runMode)

\* any calls first, then one call repeated and run to its return
NextTwice ==
    \/ arg = None /\ Next
    \/ RepeatPlanMaximizeEfficiency
    \/ RepeatPlanMinimizeStops
    \/ arg # None /\ StopsLoopIter
    \/ arg # None /\ StopsReturn

SpecTwice == Init /\ [][NextTwice]_vars

-----------------------------------------------------------------------------
(* The helpers called on their own *)

MissionWords ==
    { "Capture", "CAPTURE", "capture", "Exterminate", "Rescue", "Sabotage",
      "Spy", "Disruption", "Activity", "Survival", "Defense", "Interception",
      "Excavation", "Mobile", "Other", "Assassination" }

\* mission types of up to two words, "" included
MissionTypes == SeqsUpTo(MissionWords, 2)

\* scores in ten-thousandths: 1.8 is within 90% of 2.0, 1.7 is not
PickScores == { -1 * Unit, 0, 17000, 18000, 2 * Unit }

PickLists ==
    { [i \in DOMAIN sc |-> [nodeKey |-> i, score |-> sc[i]]] :
        sc \in SeqsUpTo(PickScores, MaxList) }

IsSortedDesc(list) ==
    \A i \in 1..(Len(list) - 1) : list[i].score >= list[i + 1].score

\* integer speed scores, some outside the 0..5 the column is meant to hold
SpeedScores == -3 .. 8

PureArgs ==
    { [fn |-> "quickMissionMultiplier", missionType |-> mt, isEndless |-> e] :
        mt \in MissionTypes, e \in BOOLEAN }
    \cup
    { [fn |-> "quickMultiplier", speedScore |-> sp] : sp \in SpeedScores }
    \cup
    { [fn |-> "pickTopOptions", list |-> l, maxOptions |-> m] :
        l \in PickLists, m \in 0..MaxList }

InitPure ==
    /\ files = [master |-> <<>>, planet |-> <<>>]
    /\ loadPc = "fetching"
    /\ MASTER_ROWS = <<>>
    /\ PLANET_DROPS = <<>>
    /\ RESOURCES = <<>>
    /\ NODE_META = <<>>
    /\ EXPLICIT = <<>>
    /\ SELECTED_KEYS = {}
    /\ resourceFilter = ""
    /\ pc = "idle"
    /\ selectedResources = <<>>
    /\ runMode = "quick"
    /\ remaining = <<>>
    /\ rDisplay = <<>>
    /\ candidates = <<>>
    /\ route = <<>>
    /\ ret = None
    /\ arg \in PureArgs

CallQuickMissionMultiplier ==
    /\ arg.fn = "quickMissionMultiplier"
    /\ ret = None
    /\ ret' = [fn |-> arg.fn,
               value |-> quickMissionMultiplier(arg.missionType, arg.isEndless)]
    /\ UNCHANGED <<files, uiVars, loadPc, catalogVars, pc, selectedResources, runMode,
                   remaining, rDisplay, candidates, route, arg>>

CallPickTopOptions ==
    /\ arg.fn = "pickTopOptions"
    /\ ret = None
    /\ ret' = [fn |-> arg.fn,
               value |-> pickTopOptions(arg.list, arg.maxOptions)]
    /\ UNCHANGED <<files, uiVars, loadPc, catalogVars, pc, selectedResources, runMode,
                   remaining, rDisplay, candidates, route, arg>>

CallQuickMultiplier ==
    /\ arg.fn = "quickMultiplier"
    /\ ret = None
    /\ ret' = [fn |-> arg.fn, value |-> quickMultiplier(arg.speedScore)]
    /\ UNCHANGED <<files, uiVars, loadPc, catalogVars, pc, selectedResources, runMode,
                   remaining, rDisplay, candidates, route, arg>>

NextPure ==
    \/ CallQuickMultiplier
    \/ CallQuickMissionMultiplier
    \/ CallPickTopOptions

SpecPure == InitPure /\ [][NextPure]_vars

-----------------------------------------------------------------------------
(* Claims *)

\* C1: for every mission type, quickMissionMultiplier(missionType, true) is
\* 0.92 times quickMissionMultiplier(missionType, false): the endless penalty
\* applies whether or not the mission type matches a rule of the table.
C1_EndlessPenaltyComposes ==
    (ret.fn = "quickMissionMultiplier" /\ arg.isEndless)
        => 100 * ret.value = 92 * quickMissionMultiplier(arg.missionType, FALSE)

\* C2: for every non-empty list sorted by descending score (negative and zero
\* scores included) and every maxOptions >= 1, pickTopOptions returns a
\* non-empty list whose first element is the first element of the input.
C2_PickKeepsBest ==
    (/\ ret.fn = "pickTopOptions"
     /\ arg.list # <<>>
     /\ IsSortedDesc(arg.list)
     /\ arg.maxOptions >= 1)
        => (ret.value # <<>> /\ ret.value[1] = arg.list[1])

\* what the planners returned
StopsReturned == ret.fn = "planMinimizeStops"
EfficiencyReturned == ret.fn = "planMaximizeEfficiency"

\* the display names in the covered list of an option
coveredNames(option) == {option.covered[j].resource : j \in DOMAIN option.covered}

\* the resources covered by the primary (first) option of some step
primaryCovered(r) == UNION {coveredNames(r[s].options[1]) : s \in DOMAIN r}

\* the resources covered by an option that is not the primary of its step
alternativeCovered(r) ==
    UNION { UNION {coveredNames(r[s].options[i]) :
                      i \in DOMAIN r[s].options \ {1}} : s \in DOMAIN r }

\* C3: when planMinimizeStops returns, missing holds exactly the requested
\* resources that no step's primary option covers, each once.
C3_MissingIsUncovered ==
    StopsReturned =>
        /\ Range(ret.value.missing)
              = Range(selectedResources) \ primaryCovered(ret.value.route)
        /\ Cardinality(Range(ret.value.missing)) = Len(ret.value.missing)

\* C3 witness: a route was returned, and a resource reported missing is in the
\* covered list of a displayed alternative.
C3_Witness ==
    /\ StopsReturned
    /\ ret.value.route # <<>>
    /\ Range(ret.value.missing) \cap alternativeCovered(ret.value.route) # {}
    /\ primaryCovered(ret.value.route) # {}


\* C4: planMinimizeStops terminates, and the route (while it is built and
\* when it is returned) never has more than 6 steps, whether or not every
\* requested resource can be covered.
C4_TerminatesWithinBound ==
    /\ [](Len(route) <= 6 /\ (StopsReturned => Len(ret.value.route) <= 6))
    /\ (pc # "idle") ~> (pc = "idle" /\ StopsReturned)

\* C4 witness: a plan that stopped at the bound with resources left over.
C4_Witness ==
    /\ StopsReturned
    /\ Len(ret.value.route) = 6
    /\ ret.value.missing # <<>>

\* every option of every entry of planMaximizeEfficiency's result
efficiencyOptionsOf(results) ==
    UNION {Range(results[i].options) : i \in DOMAIN results}

\* every option of every step of a route
routeOptionsOf(r) == UNION {Range(r[s].options) : s \in DOMAIN r}

\* C5: in run mode endless every node in a planner's output (any option of
\* any resource, any option of any step, also of the route being built) has
\* isEndless = true in NODE_META.
C5_EndlessOnlyEndlessNodes ==
    runMode = "endless" =>
        /\ EfficiencyReturned =>
              \A o \in efficiencyOptionsOf(ret.value) :
                  o.meta.isEndless /\ MapGet(NODE_META, o.nodeKey).isEndless
        /\ StopsReturned =>
              \A o \in routeOptionsOf(ret.value.route) :
                  o.meta.isEndless /\ MapGet(NODE_META, o.nodeKey).isEndless
        /\ \A o \in routeOptionsOf(route) :
                  o.meta.isEndless /\ MapGet(NODE_META, o.nodeKey).isEndless

\* a node that is not endless holds an explicit record for a requested resource
quickNodeRequested ==
    \E i \in DOMAIN selectedResources :
        /\ MapHas(EXPLICIT, norm(selectedResources[i]))
        /\ \E e \in Range(MapGet(EXPLICIT, norm(selectedResources[i]))) :
              ~MapGet(NODE_META, e.k).isEndless

\* C5 witness: an endless-mode route with an option, returned for a request
\* that a node which is not endless could serve as well.
C5_Witness ==
    /\ runMode = "endless"
    /\ StopsReturned
    /\ routeOptionsOf(ret.value.route) # {}
    /\ quickNodeRequested

\* the nodes that hold an ExplicitDropRecord for rKey and are eligible under
\* the run mode
eligibleExplicitNodes(rKey, mode) ==
    IF ~MapHas(EXPLICIT, rKey) THEN {}
    ELSE { e.k : e \in { x \in Range(MapGet(EXPLICIT, rKey)) :
                           /\ MapHas(NODE_META, x.k)
                           /\ MapGet(NODE_META, x.k).isEndless
                                  \/ mode # "endless" } }

\* C6: every requested resource with an ExplicitDropRecord on a node eligible
\* under the run mode gets from planMaximizeEfficiency an option list that is
\* non-empty and ordered by descending score.
C6_EligibleResourceHasOptions ==
    EfficiencyReturned =>
        \A i \in DOMAIN ret.value :
            eligibleExplicitNodes(norm(selectedResources[i]), runMode) # {}
                => /\ ret.value[i].options # <<>>
                   /\ IsSortedDesc(ret.value[i].options)

\* the entry of planMaximizeEfficiency's result carries a note
hasNote(entry) == "note" \in DOMAIN entry /\ entry.note # ""

\* C7 as stated: a requested resource without ExplicitDropRecord, and equally
\* one whose records are all on nodes ineligible under the run mode, gets an
\* entry with an empty options list that carries an explanatory note.
C7_EmptyOptionsCarryNote ==
    EfficiencyReturned =>
        \A i \in DOMAIN ret.value :
            eligibleExplicitNodes(norm(selectedResources[i]), runMode) = {}
                => /\ ret.value[i].options = <<>>
                   /\ hasNote(ret.value[i])

\* C7 amended: a requested resource without ExplicitDropRecord gets an entry
\* with an empty options list and the note "No explicit data for this
\* resource."; one whose records are all on nodes ineligible under the run
\* mode gets an entry with an empty options list and no note. Every requested
\* resource gets its entry, in the order of the request.
C7_NoteOnlyWithoutData ==
    EfficiencyReturned =>
        /\ Len(ret.value) = Len(selectedResources)
        /\ \A i \in DOMAIN ret.value :
              /\ ret.value[i].resource = selectedResources[i]
              /\ ~MapHas(EXPLICIT, norm(selectedResources[i]))
                    => /\ ret.value[i].options = <<>>
                       /\ hasNote(ret.value[i])
                       /\ ret.value[i].note = "No explicit data for this resource."
              /\ (/\ MapHas(EXPLICIT, norm(selectedResources[i]))
                  /\ eligibleExplicitNodes(norm(selectedResources[i]), runMode) = {})
                    => /\ ret.value[i].options = <<>>
                       /\ "note" \notin DOMAIN ret.value[i]

\* C7 witness: one result with both kinds of entry, a resource without data
\* and a resource whose nodes are all ineligible.
C7_Witness ==
    /\ EfficiencyReturned
    /\ \E i \in DOMAIN ret.value :
          ~MapHas(EXPLICIT, norm(selectedResources[i]))
    /\ \E i \in DOMAIN ret.value :
          /\ MapHas(EXPLICIT, norm(selectedResources[i]))
          /\ eligibleExplicitNodes(norm(selectedResources[i]), runMode) = {}
          /\ ret.value[i].options = <<>>

\* C8: every score in a planner output is non-negative (options of
\* planMaximizeEfficiency, options and covered entries of planMinimizeStops),
\* and a node whose effective score for a resource is zero or negative is not
\* reported as a source of that resource: an option of planMaximizeEfficiency
\* and an explicit covered entry of planMinimizeStops score more than zero.
C8_ScoresPositive ==
    /\ EfficiencyReturned =>
          \A o \in efficiencyOptionsOf(ret.value) : o.score > 0
    /\ StopsReturned =>
          \A o \in routeOptionsOf(ret.value.route) :
              /\ o.score >= 0
              /\ \A c \in Range(o.covered) :
                    /\ c.score >= 0
                    /\ c.via = "explicit" => c.score > 0

\* C9: in planMinimizeStops (the route being built and the route returned),
\* whatever an option's node covers of a resource it has an ExplicitDropRecord
\* for is covered via "explicit", with the explicit effective score, which is
\* strictly positive; so such a pair is never reported via "planet", and is
\* absent when its effective score is zero or negative.
C9_ExplicitBeforeFallback ==
    \A o \in routeOptionsOf(route)
             \cup (IF StopsReturned THEN routeOptionsOf(ret.value.route) ELSE {}) :
        \A c \in Range(o.covered) :
            \A explicit \in {getExplicitScore(norm(c.resource), o.nodeKey)} :
                explicit # <<>>
                    => /\ c.via = "explicit"
                       /\ c.score = computeEffScore(explicit[1], runMode, o.meta)
                       /\ c.score > 0

\* C9 witness: a returned option whose node has, for a requested resource, an
\* ExplicitDropRecord that scores nothing, on a planet of that resource's
\* fallback set; the option does not cover the resource.
C9_Witness ==
    /\ StopsReturned
    /\ \E o \in routeOptionsOf(ret.value.route) :
          \E i \in DOMAIN selectedResources :
              \E explicit \in {getExplicitScore(norm(selectedResources[i]),
                                                o.nodeKey)} :
                  /\ explicit # <<>>
                  /\ computeEffScore(explicit[1], runMode, o.meta) <= 0
                  /\ planetHasResourceFallback(norm(selectedResources[i]),
                                               o.meta.planetKey)
                  /\ selectedResources[i] \notin coveredNames(o)

\* the candidates of scored that hold its highest score, in the order scored
\* lists them
tiedForBest(scored) ==
    SelectSeq(scored, LAMBDA x : \A j \in DOMAIN scored : x.score >= scored[j].score)

\* C10: in every step planMinimizeStops adds to the route, the options are at
\* most 3 and start with the candidates that tie for the highest aggregate
\* score, in the order the candidates were enumerated (as many of them as fit
\* in 3): with two tied candidates both are options, and the primary one is the
\* one enumerated first.
C10_TiesKeepEnumerationOrder ==
    [][ (pc = "loop" /\ Len(route') = Len(route) + 1) =>
          \A tied \in {tiedForBest(scoreCandidates(candidates, remaining, runMode))} :
              \A options \in {route'[Len(route')].options} :
                  /\ Len(options) <= 3
                  /\ Len(options) >= (IF Len(tied) < 3 THEN Len(tied) ELSE 3)
                  /\ \A k \in DOMAIN options :
                        k <= Len(tied) =>
                            /\ options[k].nodeKey = tied[k].nodeKey
                            /\ options[k].covered = tied[k].covered
                            /\ options[k].score = tied[k].score ]_vars

\* C10 witness: a step whose first two options are different nodes with the
\* same aggregate score.
C10_Witness ==
    \E s \in DOMAIN route :
        /\ Len(route[s].options) >= 2
        /\ route[s].options[1].score = route[s].options[2].score
        /\ route[s].options[1].nodeKey # route[s].options[2].nodeKey

\* C11: every option planMaximizeEfficiency returns for a resource is a node
\* that has an ExplicitDropRecord for that resource, and its score is the
\* effective score of that record: the planet fallback plays no part.
C11_EfficiencyExplicitOnly ==
    EfficiencyReturned =>
        \A i \in DOMAIN ret.value :
            \A o \in Range(ret.value[i].options) :
                \A explicit \in {getExplicitScore(norm(selectedResources[i]),
                                                  o.nodeKey)} :
                    /\ explicit # <<>>
                    /\ o.score = computeEffScore(explicit[1], runMode, o.meta)

\* C11 witness (the scenario of the spec): Plastids requested in quick mode,
\* N1 returned as the only option, while a node without explicit record for
\* Plastids is on a planet of its fallback set.
C11_Witness ==
    /\ EfficiencyReturned
    /\ runMode = "quick"
    /\ selectedResources = <<"Plastids">>
    /\ Len(ret.value[1].options) = 1
    /\ ret.value[1].options[1].nodeKey = "n1"
    /\ \E e \in Range(NODE_META) :
          /\ getExplicitScore("plastids", e.k) = <<>>
          /\ planetHasResourceFallback("plastids", e.v.planetKey)

\* the bias table of the mission multiplier: the words of the mission type a
\* value is listed for, and the value in hundredths
BiasTable ==
    { [words |-> <<"capture">>, mult |-> 140],
      [words |-> <<"exterminate">>, mult |-> 130],
      [words |-> <<"rescue">>, mult |-> 122],
      [words |-> <<"sabotage">>, mult |-> 118],
      [words |-> <<"spy">>, mult |-> 110],
      [words |-> <<"disruption">>, mult |-> 108],
      [words |-> <<"activity">>, mult |-> 120],
      [words |-> <<"survival">>, mult |-> 90],
      [words |-> <<"defense">>, mult |-> 86],
      [words |-> <<"interception">>, mult |-> 85],
      [words |-> <<"excavation">>, mult |-> 92],
      [words |-> <<"mobile", "defense">>, mult |-> 82] }

\* C15: for a node that is not endless, quickMissionMultiplier returns for
\* every mission type the bias table lists the value listed for it; for
\* "Mobile Defense" that is 0.82.
C15_TableValuesReturned ==
    (ret.fn = "quickMissionMultiplier" /\ ~arg.isEndless)
        => \A b \in BiasTable :
              normWords(arg.missionType) = b.words => ret.value = b.mult

clamped(sp) == IF sp < 0 THEN 0 ELSE IF sp > 5 THEN 5 ELSE sp

\* C18: quickMultiplier(s) is 0.6 + 0.4 * (s / 5) of the speed score clamped
\* to [0, 5], lies in [0.6, 1.0], and is not below its value at any smaller
\* speed score (hundredths, integer speed scores).
C18_QuickMultiplierBounded ==
    ret.fn = "quickMultiplier" =>
        /\ 5 * ret.value = 5 * 60 + 40 * clamped(arg.speedScore)
        /\ 60 <= ret.value /\ ret.value <= 100
        /\ \A sp \in SpeedScores :
              sp <= arg.speedScore => quickMultiplier(sp) <= ret.value

\* C18 witness: a speed score above 5, where the clamp decides the value.
C18_Witness ==
    /\ ret.fn = "quickMultiplier"
    /\ arg.speedScore > 5
    /\ ret.value = 100

\* the rows of ResourcesMaster.csv that loadData does not skip
usableRows ==
    { i \in DOMAIN files.master :
        trim(files.master[i].resource) # "" /\ trim(files.master[i].node) # "" }

\* the usable rows of a (resource key, node key) pair, and of a node key
rowsOfPair(rKey, nKey) ==
    { i \in usableRows : /\ norm(files.master[i].resource) = rKey
                         /\ norm(files.master[i].node) = nKey }

rowsOfNode(nKey) == { i \in usableRows : norm(files.master[i].node) = nKey }

lastOf(S) == CHOOSE i \in S : \A j \in S : j <= i

firstOf(S) == CHOOSE i \in S : \A j \in S : i <= j

\* the isEndless cell of a row as a boolean
endlessCell(row) == toLowerCase(trim(row.isEndless)) = "true"

\* C17: once loadData has run, the ExplicitDropRecord of every (resource key,
\* node key) pair is the dropScore, speedScore and isEndless of the last row
\* with that pair, the metadata of every node is that of the first row with
\* that node key, and nothing is recorded that no row gave.
C17_LastRecordFirstMeta ==
    loadPc = "loaded" =>
        /\ \A i \in usableRows :
              \A rKey \in {norm(files.master[i].resource)},
                 nKey \in {norm(files.master[i].node)} :
                  \A last \in {files.master[lastOf(rowsOfPair(rKey, nKey))]},
                     first \in {files.master[firstOf(rowsOfNode(nKey))]} :
                      /\ getExplicitScore(rKey, nKey)
                            = << [dropScore |-> last.dropScore,
                                  speedScore |-> last.speedScore,
                                  isEndless |-> endlessCell(last)] >>
                      /\ MapHas(NODE_META, nKey)
                      /\ MapGet(NODE_META, nKey)
                            = [node |-> trim(first.node),
                               planet |-> trim(first.planet),
                               planetKey |-> norm(first.planet),
                               missionType |-> IF first.missionType = <<>>
                                               THEN <<"Other">>
                                               ELSE first.missionType,
                               isEndless |-> endlessCell(first),
                               speedScore |-> first.speedScore]
        /\ \A e \in Range(EXPLICIT) :
              \A n \in Range(e.v) : rowsOfPair(e.k, n.k) # {}
        /\ \A n \in Range(NODE_META) : rowsOfNode(n.k) # {}

\* C17 witness: two rows with the same pair that differ in dropScore,
\* speedScore, isEndless and planet.
C17_Witness ==
    /\ loadPc = "loaded"
    /\ \E i, j \in usableRows :
          /\ i < j
          /\ j \in rowsOfPair(norm(files.master[i].resource),
                              norm(files.master[i].node))
          /\ files.master[i].dropScore # files.master[j].dropScore
          /\ files.master[i].speedScore # files.master[j].speedScore
          /\ endlessCell(files.master[i]) # endlessCell(files.master[j])
          /\ files.master[i].planet # files.master[j].planet

\* what a node adds to its aggregate score for one remaining resource, in
\* ten-thousandths: the explicit effective score when a record exists and the
\* score is strictly positive; without a record, the fallback score when the
\* node's planet is in the resource's fallback set; else nothing
contribution(rKey, nKey, mode) ==
    LET meta == MapGet(NODE_META, nKey)
        explicit == getExplicitScore(rKey, nKey)
        quick == quickMultiplier(meta.speedScore)
                    * quickMissionMultiplier(meta.missionType, meta.isEndless)
    IN  IF explicit # <<>>
        THEN (IF computeEffScore(explicit[1], mode, meta) > 0
              THEN computeEffScore(explicit[1], mode, meta) ELSE 0)
        ELSE IF /\ MapHas(PLANET_DROPS, rKey)
                /\ meta.planetKey \in MapGet(PLANET_DROPS, rKey)
        THEN 2 * (IF mode = "quick" THEN quick ELSE Unit)
        ELSE 0

RECURSIVE aggregate(_, _, _)
aggregate(nKey, rem, mode) ==
    IF rem = <<>> THEN 0
    ELSE contribution(Head(rem), nKey, mode) + aggregate(nKey, Tail(rem), mode)

\* the resource keys in the covered list of an option
coveredKeys(option) ==
    {norm(option.covered[j].resource) : j \in DOMAIN option.covered}

\* C19: in every step planMinimizeStops adds to the route, the score of each
\* option is the sum of its node's contributions over the resources still in
\* remaining, its covered list holds exactly the resources it contributes to,
\* each with its contribution; the primary option is a candidate no other
\* candidate outscores, and exactly the resources of its covered list leave
\* remaining.
C19_AggregateAndGreedyStep ==
    [][ (pc = "loop" /\ Len(route') = Len(route) + 1) =>
          \A options \in {route'[Len(route')].options} :
              /\ \A o \in Range(options) :
                    /\ o.nodeKey \in Range(candidates)
                    /\ o.score = aggregate(o.nodeKey, remaining, runMode)
                    /\ o.score > 0
                    /\ coveredKeys(o)
                          = { rKey \in Range(remaining) :
                                contribution(rKey, o.nodeKey, runMode) > 0 }
                    /\ \A c \in Range(o.covered) :
                          c.score = contribution(norm(c.resource), o.nodeKey,
                                                 runMode)
              /\ \A nKey \in Range(candidates) :
                    aggregate(nKey, remaining, runMode) <= options[1].score
              /\ Range(remaining') = Range(remaining) \ coveredKeys(options[1])
              /\ Len(remaining') = Cardinality(Range(remaining')) ]_vars

\* C19 witness: a quick-mode step whose primary option covers one resource
\* through its explicit record and another through the planet fallback.
C19_Witness ==
    /\ runMode = "quick"
    /\ \E s \in DOMAIN route :
          \E c, d \in Range(route[s].options[1].covered) :
              /\ c.via = "explicit"
              /\ d.via = "planet"
              /\ route[s].options[1].score = c.score + d.score

\* the node is eligible under the run mode and holds an ExplicitDropRecord
\* for a requested resource
inCandidatePool(nKey) ==
    /\ MapHas(NODE_META, nKey)
    /\ runMode = "endless" => MapGet(NODE_META, nKey).isEndless
    /\ \E i \in DOMAIN selectedResources :
          getExplicitScore(norm(selectedResources[i]), nKey) # <<>>

\* C20: every node in an option of a planMinimizeStops route (being built or
\* returned) is eligible under the run mode and holds an ExplicitDropRecord
\* for a requested resource; a requested resource that no such node covers,
\* whatever other nodes could cover it through the planet fallback, is
\* reported missing.
C20_OnlyPoolNodes ==
    /\ \A o \in routeOptionsOf(route) : inCandidatePool(o.nodeKey)
    /\ StopsReturned =>
          /\ \A o \in routeOptionsOf(ret.value.route) : inCandidatePool(o.nodeKey)
          /\ \A i \in DOMAIN selectedResources :
                (\A n \in Range(NODE_META) :
                    inCandidatePool(n.k)
                        => contribution(norm(selectedResources[i]), n.k,
                                        runMode) = 0)
                    => selectedResources[i] \in Range(ret.value.missing)

\* C20 witness: a returned plan reports a resource missing although an
\* eligible node outside the pool is on a planet of its fallback set.
C20_Witness ==
    /\ StopsReturned
    /\ \E i \in DOMAIN selectedResources :
          /\ selectedResources[i] \in Range(ret.value.missing)
          /\ \E n \in Range(NODE_META) :
                /\ ~inCandidatePool(n.k)
                /\ runMode = "endless" => n.v.isEndless
                /\ contribution(norm(selectedResources[i]), n.k, runMode) > 0

\* a planner is running or has just returned in this step
plannerStep ==
    \/ pc # "idle"
    \/ pc' # "idle"
    \/ ret' # ret /\ ret'.fn = "planMaximizeEfficiency"

\* C13: a step of planMaximizeEfficiency or planMinimizeStops leaves EXPLICIT,
\* NODE_META, PLANET_DROPS, RESOURCES (and MASTER_ROWS) and the selection
\* SELECTED_KEYS as they were.
C13_PlanningLeavesIndex ==
    [][ plannerStep =>
          /\ EXPLICIT' = EXPLICIT
          /\ NODE_META' = NODE_META
          /\ PLANET_DROPS' = PLANET_DROPS
          /\ RESOURCES' = RESOURCES
          /\ MASTER_ROWS' = MASTER_ROWS
          /\ SELECTED_KEYS' = SELECTED_KEYS ]_vars

\* C13 witness: planMinimizeStops returned a route for a selection made on
\* the page, which is still selected.
C13_Witness ==
    /\ StopsReturned
    /\ ret.value.route # <<>>
    /\ selectedResources = getSelectedResources
    /\ Len(selectedResources) >= 2

\* the index as the module starts with, part_000:19-27
IndexEmpty ==
    /\ MASTER_ROWS = <<>>
    /\ NODE_META = <<>>
    /\ EXPLICIT = <<>>
    /\ RESOURCES = <<>>
    /\ PLANET_DROPS = <<>>

\* the index holds what every row of both files contributes
IndexComplete ==
    /\ Len(MASTER_ROWS) = Cardinality(usableRows)
    /\ \A i \in usableRows :
          /\ getExplicitScore(norm(files.master[i].resource),
                              norm(files.master[i].node)) # <<>>
          /\ MapHas(NODE_META, norm(files.master[i].node))
          /\ \E r \in Range(RESOURCES) : norm(r) = norm(files.master[i].resource)
    /\ \A p \in Range(files.planet) :
          trim(p.planet) # "" =>
              \A item \in Range(p.resources) :
                  trim(item) # "" =>
                      planetHasResourceFallback(norm(item), norm(p.planet))

plannerRan ==
    pc # "idle" \/ ret.fn \in {"planMaximizeEfficiency", "planMinimizeStops"}

\* C14: whatever the order of the page's events and the steps of init(), the
\* index is the empty initial one until loadData has finished and the
\* complete one afterwards; a planner runs only on the complete one, and
\* planRoute runs none while the index is empty.
C14_PlannerSeesWholeIndex ==
    /\ loadPc # "loaded" => IndexEmpty
    /\ loadPc = "loaded" => IndexComplete
    /\ plannerRan => (loadPc = "loaded" /\ IndexComplete /\ ~IndexEmpty)

\* C14 witness: Plan was clicked while the files were still being read, and
\* planRoute answered without running a planner.
C14_Witness ==
    /\ loadPc = "reading"
    /\ ret.fn = "planRoute"
    /\ files.master # <<>>

\* C12: a planner called again with the same catalog, resource list and run
\* mode returns what it returned the first time, whatever calls came before
\* the first one.
C12_SameCallSameResult ==
    (arg.fn = "repeat" /\ ret.fn = arg.of) => ret.value = arg.value

\* C12 witness: planMinimizeStops returned a second time, with a route and a
\* missing resource.
C12_Witness ==
    /\ arg.fn = "repeat"
    /\ StopsReturned
    /\ ret.value.route # <<>>
    /\ ret.value.missing # <<>>

\* the primaries of two different steps of r are different nodes and cover
\* no resource in common
primariesApart(r) ==
    \A s, t \in DOMAIN r :
        s < t =>
            /\ r[s].options[1].nodeKey # r[t].options[1].nodeKey
            /\ coveredNames(r[s].options[1]) \cap coveredNames(r[t].options[1])
                  = {}

\* C21: an iteration of planMinimizeStops records a step exactly when some
\* candidate covers a resource still in remaining; the step's primary option
\* then covers a resource that was in remaining and remaining strictly
\* shrinks, otherwise the loop is left with route and remaining as they were.
\* In a route (being built or returned) no two primaries are the same node and
\* no resource is covered by two primaries.
C21_EveryStepMakesProgress ==
    /\ [](/\ primariesApart(route)
          /\ StopsReturned => primariesApart(ret.value.route))
    /\ [][ (pc = "loop" /\ loopCondition) =>
             IF \E nKey \in Range(candidates) :
                    aggregate(nKey, remaining, runMode) > 0
             THEN /\ Len(route') = Len(route) + 1
                  /\ coveredKeys(route'[Len(route')].options[1])
                        \cap Range(remaining) # {}
                  /\ Range(remaining') \subseteq Range(remaining)
                  /\ Len(remaining') < Len(remaining)
             ELSE /\ pc' = "break"
                  /\ route' = route
                  /\ remaining' = remaining ]_vars

\* C21 witness: a plan of several steps that ended below the stop bound with a
\* resource no candidate covered.
C21_Witness ==
    /\ StopsReturned
    /\ Len(ret.value.route) >= 2
    /\ Len(ret.value.route) < maxStops
    /\ ret.value.missing # <<>>

=============================================================================
